---- MODULE Spec2Model ----
(***************************************************************************)
(* ContentPilot humanizer script (contentpilot-humanizer/humanizer.py).    *)
(*                                                                         *)
(* One process run: the __main__ block dispatches either to the            *)
(* dependency report (help) or to main(), which reads a JSON request from  *)
(* stdin, validates the text, imports and calls the external `humanize`    *)
(* capability and prints one JSON object.  Python exceptions are modelled  *)
(* as values that travel up through the enclosing try blocks, each         *)
(* handler selecting by class as the except clauses do.                    *)
(*                                                                         *)
(* Strings are sequences of one-character strings, so that str.strip()     *)
(* and str() are computed rather than assumed.  Messages are sequences of  *)
(* message fragments (f-string pieces).                                    *)
(***************************************************************************)
EXTENDS Integers, Sequences, FiniteSets, TLC

\* Longest string drawn for a request field or a capability result.
MaxLen == 2

\* ---------------------------------------------------------------- strings
Whitespace == {" "}
Chars == {" ", "x"}

RECURSIVE StringsUpTo(_)
StringsUpTo(n) ==
    IF n = 0 THEN {<<>>}
    ELSE LET shorter == StringsUpTo(n - 1)
         IN  shorter \cup {Append(s, c) : s \in {t \in shorter : Len(t) = n - 1}, c \in Chars}

Strings == StringsUpTo(MaxLen)

RECURSIVE LStrip(_)
LStrip(s) == IF s # <<>> /\ Head(s) \in Whitespace THEN LStrip(Tail(s)) ELSE s

RECURSIVE RStrip(_)
RStrip(s) ==
    IF s # <<>> /\ s[Len(s)] \in Whitespace THEN RStrip(SubSeq(s, 1, Len(s) - 1)) ELSE s

\* str.strip()
Strip(s) == LStrip(RStrip(s))

\* ---------------------------------------------------------- python values
\* A value is [t, s, n]: its type name, its characters when a str, its
\* number when an int.
PyStr(chars) == [t |-> "str", s |-> chars, n |-> 0]
PyInt(k) == [t |-> "int", s |-> <<>>, n |-> k]
None == [t |-> "NoneType", s |-> <<>>, n |-> 0]

DigitChar == <<"0", "1", "2", "3", "4", "5", "6", "7", "8", "9">>

RECURSIVE Digits(_)
Digits(k) ==
    IF k < 10 THEN <<DigitChar[k + 1]>>
    ELSE Digits(k \div 10) \o <<DigitChar[(k % 10) + 1]>>

\* str(v), for the values a capability result is drawn from
StrOf(v) ==
    CASE v.t = "str" -> v.s
      [] v.t = "int" -> Digits(v.n)
      [] OTHER -> <<"N", "o", "n", "e">>

\* A dict is a function from the keys present to values.
EmptyDict == [k \in {} |-> None]

\* dict.get(key, default)
Get(d, key, default) == IF key \in DOMAIN d THEN d[key] ELSE default

\* ----------------------------------------------------------- exceptions
\* The builtin exception hierarchy, as far as the script raises or catches.
Parent(cls) ==
    CASE cls = "JSONDecodeError" -> "ValueError"
      [] cls = "ValueError" -> "Exception"
      [] cls = "AttributeError" -> "Exception"
      [] cls = "ImportError" -> "Exception"
      [] cls = "RuntimeError" -> "Exception"
      [] cls = "UnicodeEncodeError" -> "ValueError"
      [] cls = "Exception" -> "BaseException"
      [] cls = "SystemExit" -> "BaseException"
      [] OTHER -> "object"

RECURSIVE IsInstance(_, _)
IsInstance(cls, base) ==
    IF cls = base THEN TRUE
    ELSE IF cls \in {"object", "None"} THEN FALSE
    ELSE IsInstance(Parent(cls), base)

NoExc == [cls |-> "None", msg |-> <<>>, code |-> 0]
Exc(cls, msg) == [cls |-> cls, msg |-> msg, code |-> 0]
\* sys.exit(code)
SysExit(code) == [cls |-> "SystemExit", msg |-> <<>>, code |-> code]

\* The text of "'T' object has no attribute 'a'"
NoAttribute(type, attr) == <<"'", type, "' object has no attribute '", attr, "'">>

NotInstalledMsg ==
    <<"The 'humano' package is not installed. ", "Install it with: pip install humano">>

\* -------------------------------------------------------------- inputs
HelpFlags == {"--help", "-h", "help"}
\* sys.argv[1], "" when there is none
Argv1 == {""} \cup HelpFlags \cup {"--verbose"}

Low == <<"l", "o", "w">>
Medium == <<"m", "e", "d", "i", "u", "m">>
High == <<"h", "i", "g", "h">>
Maximum == <<"m", "a", "x", "i", "m", "u", "m">>
valid_strengths == {PyStr(Low), PyStr(Medium), PyStr(High), PyStr(Maximum)}

IntVals == {7, 12}
NonStrings == {PyInt(k) : k \in IntVals} \cup {None}

TextValues == {PyStr(s) : s \in Strings} \cup NonStrings
StrengthValues ==
    valid_strengths \cup {PyStr(<<"l", "o", "w", " ">>), PyStr(<<>>)} \cup NonStrings
PersonalityValues == {PyStr(s) : s \in Strings} \cup NonStrings

Keys == {"text", "strength", "personality"}
FieldValues(k) ==
    CASE k = "text" -> TextValues
      [] k = "strength" -> StrengthValues
      [] OTHER -> PersonalityValues

\* The JSON objects a request can be: any subset of the keys, any JSON value
Objects ==
    UNION { {d \in [K -> TextValues \cup StrengthValues \cup PersonalityValues] :
                \A k \in K : d[k] \in FieldValues(k)} : K \in SUBSET Keys }

\* What json.loads returns: a dict, or another JSON document (a list, a number)
Documents ==
    {[t |-> "dict", d |-> o] : o \in Objects}
        \cup {[t |-> "list", d |-> EmptyDict], [t |-> "int", d |-> EmptyDict]}

\* Stdin: its characters, whether they parse as JSON once stripped, and the
\* document they parse to.  No string over Chars is JSON: the empty and the
\* whitespace-only ones strip to nothing, the others are malformed.
JsonText == <<"{", "}">>
NoDocument == [t |-> "NoneType", d |-> EmptyDict]
StdinContents ==
    {[raw |-> r, parses |-> FALSE, doc |-> NoDocument] : r \in Strings}
        \cup {[raw |-> JsonText, parses |-> TRUE, doc |-> doc] : doc \in Documents}

\* What a call of humanize(text, **params) can do: return a value, or raise
\* an exception (a subclass of Exception)
ReturnValues == {PyStr(s) : s \in Strings} \cup NonStrings
CapabilityRaises == {"ValueError", "ImportError"}
CapabilityFailure == <<"capability failure">>

\* What datetime.now().isoformat() yields, or "unknown" when that fails
IsoTimestamps == {"2025-01-01T00:00:00.000000"}
Timestamps == IsoTimestamps \cup {"unknown"}

\* --------------------------------------------------------------- state
VARIABLES
    pc,               \* position of the run
    argv1,            \* sys.argv[1] ("" when absent)
    stdin,            \* content of standard input
    humanoInstalled,  \* whether `humano` can be imported
    input_data,       \* main: parsed document
    text, strength, personality,   \* main / process_with_humano locals
    humano_params,    \* process_with_humano: keyword arguments
    humanized_text,   \* value returned by humanize, then the str returned
    exc,              \* exception in flight
    stdout,           \* objects printed to stdout
    stderr,           \* messages printed to stderr
    exitStatus,       \* exit status, once pc = "exit"
    stdinReads,       \* number of sys.stdin.read() calls
    imports,          \* number of `from humano import humanize` executed
    calls,            \* calls of humanize: <<[text, kwargs, outcome]>>
    stages            \* stages of main entered, in order

vars == <<pc, argv1, stdin, humanoInstalled, input_data, text, strength, personality,
          humano_params, humanized_text, exc, stdout, stderr, exitStatus,
          stdinReads, imports, calls, stages>>

inputs == <<argv1, stdin, humanoInstalled>>
locals == <<input_data, text, strength, personality, humano_params, humanized_text>>
streams == <<stdout, stderr>>

Init ==
    /\ pc = "start"
    /\ argv1 \in Argv1
    /\ stdin \in StdinContents
    /\ humanoInstalled \in BOOLEAN
    /\ input_data = NoDocument
    /\ text = None
    /\ strength = None
    /\ personality = None
    /\ humano_params = EmptyDict
    /\ humanized_text = None
    /\ exc = NoExc
    /\ stdout = <<>>
    /\ stderr = <<>>
    /\ exitStatus = 0
    /\ stdinReads = 0
    /\ imports = 0
    /\ calls = <<>>
    /\ stages = <<>>

\* ------------------------------------------------------------- __main__
\* Mutant: only the long flag is recognised
HelpRequested_LongFlagOnly(a) == a = "--help"

\* len(sys.argv) > 1 and sys.argv[1] in ['--help', '-h', 'help']
HelpRequested(a) == a # "" /\ a \in HelpFlags

Dispatch ==
    /\ pc = "start"
    /\ pc' = IF HelpRequested(argv1) THEN "help" ELSE "read_input"
    /\ UNCHANGED <<inputs, locals, exc, streams, exitStatus, stdinReads, imports,
                   calls, stages>>

\* check_dependencies(): the issues found.  The version test cannot add an
\* issue: the script uses f-strings, so an interpreter older than 3.6 does
\* not run it at all.
check_dependencies ==
    IF humanoInstalled THEN <<>>
    ELSE <<"humano package not installed (pip install humano)">>

\* The lines print_dependencies_help() writes
DependencyReport(issues) ==
    IF issues = <<>>
    THEN << <<"Dependencies Check Results:">>, <<"All dependencies are available">> >>
    ELSE << <<"Dependencies Check Results:">>, <<"Missing dependencies:">> >>
         \o [i \in 1..Len(issues) |-> <<"  - ", issues[i]>>]
         \o << <<"Installation Instructions:">>,
               <<"1. Install Python 3.6+ if not already installed">>,
               <<"2. Install the humano package:">>,
               <<"   pip install humano">>,
               <<"   OR for Python 3 specifically:">>,
               <<"   python3 -m pip install humano">>,
               <<"For virtual environments:">>,
               <<"   source venv/bin/activate">>,
               <<"   pip install humano">> >>

\* print_dependencies_help(); sys.exit(0)
PrintDependenciesHelp ==
    /\ pc = "help"
    /\ stderr' = stderr \o DependencyReport(check_dependencies)
    /\ exc' = SysExit(0)
    /\ pc' = "unwind"
    /\ UNCHANGED <<inputs, locals, stdout, exitStatus, stdinReads, imports, calls, stages>>

\* ----------------------------------------------------------- read_input
\* What the body of read_input's try raises, NoExc when it returns
ReadInputRaises(in) ==
    IF Strip(in.raw) = <<>> THEN Exc("ValueError", <<"No input received from stdin">>)
    ELSE IF ~in.parses THEN Exc("JSONDecodeError", <<"Expecting value">>)
    ELSE NoExc

\* read_input's except clauses, in order
ReadInputHandler(e) ==
    IF IsInstance(e.cls, "JSONDecodeError")
    THEN Exc("ValueError", <<"Invalid JSON input: ">> \o e.msg)
    ELSE IF IsInstance(e.cls, "Exception")
    THEN Exc("ValueError", <<"Failed to read input: ">> \o e.msg)
    ELSE e

ReadInput ==
    /\ pc = "read_input"
    /\ stages' = Append(stages, "read_input")
    /\ stdinReads' = stdinReads + 1
    /\ LET e == ReadInputRaises(stdin)
       IN  IF e = NoExc
           THEN /\ input_data' = stdin.doc
                /\ pc' = "extract"
                /\ exc' = exc
           ELSE /\ exc' = ReadInputHandler(e)
                /\ pc' = "main_except"
                /\ input_data' = input_data
    /\ UNCHANGED <<inputs, text, strength, personality, humano_params, humanized_text,
                   streams, exitStatus, imports, calls>>

\* ------------------------------------------------- main: extract, validate
\* Mutant: `if not text`, the text is not stripped before the test
ValidateText_NoStrip(t) ==
    IF t.t # "str" THEN Exc("AttributeError", NoAttribute(t.t, "strip"))
    ELSE IF t.s = <<>> THEN Exc("ValueError", <<"No text provided for humanization">>)
    ELSE NoExc

\* `if not text.strip()`: what it raises for a text, NoExc when it passes
ValidateText(t) ==
    IF t.t # "str" THEN Exc("AttributeError", NoAttribute(t.t, "strip"))
    ELSE IF Strip(t.s) = <<>> THEN Exc("ValueError", <<"No text provided for humanization">>)
    ELSE NoExc

\* Mutant: the text is extracted but not validated in main
ExtractAndValidate_SkipValidation ==
    /\ pc = "extract"
    /\ stages' = Append(stages, "validate")
    /\ IF input_data.t # "dict"
       THEN /\ exc' = Exc("AttributeError", NoAttribute(input_data.t, "get"))
            /\ pc' = "main_except"
            /\ UNCHANGED <<text, strength, personality>>
       ELSE /\ text' = Get(input_data.d, "text", PyStr(<<>>))
            /\ strength' = Get(input_data.d, "strength", PyStr(Medium))
            /\ personality' = Get(input_data.d, "personality", PyStr(<<>>))
            /\ exc' = exc
            /\ pc' = "import"
    /\ UNCHANGED <<inputs, input_data, humano_params, humanized_text, streams,
                   exitStatus, stdinReads, imports, calls>>

ExtractAndValidate ==
    /\ pc = "extract"
    /\ stages' = Append(stages, "validate")
    /\ IF input_data.t # "dict"
       THEN /\ exc' = Exc("AttributeError", NoAttribute(input_data.t, "get"))
            /\ pc' = "main_except"
            /\ UNCHANGED <<text, strength, personality>>
       ELSE /\ text' = Get(input_data.d, "text", PyStr(<<>>))
            /\ strength' = Get(input_data.d, "strength", PyStr(Medium))
            /\ personality' = Get(input_data.d, "personality", PyStr(<<>>))
            /\ exc' = ValidateText(text')
            /\ pc' = IF exc' = NoExc THEN "import" ELSE "main_except"
    /\ UNCHANGED <<inputs, input_data, humano_params, humanized_text, streams,
                   exitStatus, stdinReads, imports, calls>>

\* --------------------------------------------------- process_with_humano
ImportHumano ==
    /\ pc = "import"
    /\ stages' = Append(stages, "import")
    /\ imports' = imports + 1
    /\ IF humanoInstalled
       THEN pc' = "prepare" /\ exc' = exc
       ELSE pc' = "process_except" /\ exc' = Exc("ImportError", NotInstalledMsg)
    /\ UNCHANGED <<inputs, locals, streams, exitStatus, stdinReads, calls>>

\* Mutant: the strength is passed on unchecked
CoerceStrength_Unchecked(s) == s

\* `if strength not in valid_strengths: strength = 'medium'`
CoerceStrength(s) == IF s \notin valid_strengths THEN PyStr(Medium) ELSE s

\* Mutant: an empty personality is kept instead of becoming None
PersonalityParam_KeepEmpty(p) == PyStr(Strip(p.s))

\* `personality.strip() if personality.strip() else None`
PersonalityParam(p) == IF Strip(p.s) # <<>> THEN PyStr(Strip(p.s)) ELSE None

\* `{k: v for k, v in humano_params.items() if v is not None}`
RemoveNone(d) == [k \in {j \in DOMAIN d : d[j] # None} |-> d[k]]

PrepareParams ==
    /\ pc = "prepare"
    /\ strength' = CoerceStrength(strength)
    /\ IF personality.t # "str"
       THEN /\ exc' = Exc("AttributeError", NoAttribute(personality.t, "strip"))
            /\ pc' = "process_except"
            /\ humano_params' = humano_params
       ELSE /\ humano_params' = RemoveNone([strength |-> strength',
                                            personality |-> PersonalityParam(personality)])
            /\ pc' = "call"
            /\ exc' = exc
    /\ UNCHANGED <<inputs, input_data, text, personality, humanized_text, streams,
                   exitStatus, stdinReads, imports, calls, stages>>

\* humanize(text, **humano_params): returns any value or raises
CallHumanize ==
    /\ pc = "call"
    /\ stages' = Append(stages, "invoke")
    /\ \/ \E v \in ReturnValues :
            /\ humanized_text' = v
            /\ calls' = Append(calls, [text |-> text, kwargs |-> humano_params,
                                       raised |-> "None", returned |-> v])
            /\ pc' = "ensure_str"
            /\ exc' = exc
       \/ \E cls \in CapabilityRaises :
            /\ calls' = Append(calls, [text |-> text, kwargs |-> humano_params,
                                       raised |-> cls, returned |-> None])
            /\ exc' = Exc(cls, CapabilityFailure)
            /\ pc' = "process_except"
            /\ humanized_text' = humanized_text
    /\ UNCHANGED <<inputs, input_data, text, strength, personality, humano_params,
                   streams, exitStatus, stdinReads, imports>>

\* `if not isinstance(humanized_text, str): humanized_text = str(humanized_text)`
EnsureStr(v) == IF v.t # "str" THEN PyStr(StrOf(v)) ELSE v

\* Mutant: the result is returned without being stripped
Returned_Unstripped(v) == EnsureStr(v)

\* `return humanized_text.strip()`
Returned(v) == PyStr(Strip(EnsureStr(v).s))

EnsureString ==
    /\ pc = "ensure_str"
    /\ humanized_text' = Returned(humanized_text)
    /\ pc' = "output"
    /\ UNCHANGED <<inputs, input_data, text, strength, personality, humano_params, exc,
                   streams, exitStatus, stdinReads, imports, calls, stages>>

\* process_with_humano's except clauses, in order
ProcessHandler(e) ==
    IF IsInstance(e.cls, "ImportError") THEN Exc("ImportError", e.msg)
    ELSE IF IsInstance(e.cls, "Exception")
    THEN Exc("RuntimeError", <<"Humano processing failed: ">> \o e.msg)
    ELSE e

ProcessExcept ==
    /\ pc = "process_except"
    /\ exc' = ProcessHandler(exc)
    /\ pc' = "main_except"
    /\ UNCHANGED <<inputs, locals, streams, exitStatus, stdinReads, imports, calls, stages>>

\* --------------------------------------------------------- output_result
OutputData(h, ts) == [humanized_text |-> h.s, timestamp |-> ts, success |-> TRUE]

\* output_result's except clause: report, then sys.exit(1)
OutputHandler(e) == <<"Error: ", "Failed to output result: ">> \o e.msg

\* Mutant: the line reaches stdout before the failure is noticed
OutputResult_WritesBeforeFailing ==
    /\ pc = "output"
    /\ stages' = Append(stages, "output")
    /\ \E ts \in Timestamps, encodes \in BOOLEAN :
         /\ stdout' = Append(stdout, OutputData(humanized_text, ts))
         /\ IF encodes
            THEN pc' = "unwind" /\ UNCHANGED <<stderr, exc>>
            ELSE /\ stderr' = Append(stderr,
                        OutputHandler(Exc("UnicodeEncodeError", <<"codec can't encode character">>)))
                 /\ exc' = SysExit(1)
                 /\ pc' = "main_except"
    /\ UNCHANGED <<inputs, locals, exitStatus, stdinReads, imports, calls>>

\* print(json.dumps(...)) writes the line, or fails to encode it for stdout
\* (a lone surrogate taken from a \uD800 escape, a narrow stdout encoding)
\* before anything is written.
OutputResult ==
    /\ pc = "output"
    /\ stages' = Append(stages, "output")
    /\ \E ts \in Timestamps, encodes \in BOOLEAN :
         IF encodes
         THEN /\ stdout' = Append(stdout, OutputData(humanized_text, ts))
              /\ pc' = "unwind"
              /\ UNCHANGED <<stderr, exc>>
         ELSE /\ stderr' = Append(stderr,
                     OutputHandler(Exc("UnicodeEncodeError", <<"codec can't encode character">>)))
              /\ exc' = SysExit(1)
              /\ pc' = "main_except"
              /\ stdout' = stdout
    /\ UNCHANGED <<inputs, locals, exitStatus, stdinReads, imports, calls>>

\* ------------------------------------------------------- main: except
\* Mutant: a bare `except:`, which also catches SystemExit
MainExcept_BareExcept ==
    /\ pc = "main_except"
    /\ IF IsInstance(exc.cls, "BaseException")
       THEN /\ stderr' = Append(stderr, <<"Error: ">> \o exc.msg)
            /\ exc' = SysExit(1)
       ELSE UNCHANGED <<stderr, exc>>
    /\ pc' = "unwind"
    /\ UNCHANGED <<inputs, locals, stdout, exitStatus, stdinReads, imports, calls, stages>>

\* `except Exception as e`: print the message and sys.exit(1); anything
\* that is no Exception (SystemExit) passes through.
MainExcept ==
    /\ pc = "main_except"
    /\ IF IsInstance(exc.cls, "Exception")
       THEN /\ stderr' = Append(stderr, <<"Error: ">> \o exc.msg)
            /\ exc' = SysExit(1)
       ELSE UNCHANGED <<stderr, exc>>
    /\ pc' = "unwind"
    /\ UNCHANGED <<inputs, locals, stdout, exitStatus, stdinReads, imports, calls, stages>>

\* The script ends: with the code of the SystemExit in flight, or 0.
InterpreterExit ==
    /\ pc = "unwind"
    /\ exitStatus' = IF exc.cls = "SystemExit" THEN exc.code ELSE 0
    /\ pc' = "exit"
    /\ UNCHANGED <<inputs, locals, exc, streams, stdinReads, imports, calls, stages>>

Next ==
    \/ Dispatch
    \/ PrintDependenciesHelp
    \/ ReadInput
    \/ ExtractAndValidate
    \/ ImportHumano
    \/ PrepareParams
    \/ CallHumanize
    \/ EnsureString
    \/ ProcessExcept
    \/ OutputResult
    \/ MainExcept
    \/ InterpreterExit

Spec == Init /\ [][Next]_vars

\* ============================================================ properties
Exited == pc = "exit"
\* The run was started with a help flag as its first argument
HelpRun == argv1 \in {"--help", "-h", "help"}
MainRun == ~HelpRun
\* Stdin holds a JSON object: the request
HasRequest == stdin.parses /\ stdin.doc.t = "dict"
Request == stdin.doc.d
AllStages == <<"read_input", "validate", "import", "invoke", "output">>

AllWhitespace(s) == \A i \in 1..Len(s) : s[i] \in Whitespace

\* t is s without its leading and trailing whitespace
IsTrimOf(t, s) ==
    /\ t # <<>> => t[1] \notin Whitespace /\ t[Len(t)] \notin Whitespace
    /\ \E i \in 0..Len(s) :
         /\ i + Len(t) <= Len(s)
         /\ SubSeq(s, i + 1, i + Len(t)) = t
         /\ AllWhitespace(SubSeq(s, 1, i))
         /\ AllWhitespace(SubSeq(s, i + Len(t) + 1, Len(s)))

\* The one message on stderr is `Error: ` followed by the fragments m
Reports(m) == stderr = << <<"Error: ">> \o m >>
\* The one message on stderr is `Error: ` followed by the prefix p ...
ReportsPrefix(p) == Len(stderr) = 1 /\ Len(stderr[1]) >= 2 /\ stderr[1][2] = p

InputError == ReportsPrefix("Failed to read input: ") \/ ReportsPrefix("Invalid JSON input: ")
ValidationError == Reports(<<"No text provided for humanization">>)
UnavailableError == Reports(NotInstalledMsg)
ProcessingError == ReportsPrefix("Humano processing failed: ")
OutputError == ReportsPrefix("Failed to output result: ")

\* C1: a non-help run never gets stuck, and ends either with status 0 and
\* nothing on stderr, or with status 1 after exactly one message of the
\* form `Error: <message>` on stderr (the output failure path included).
C1_TwoOutcomes ==
    /\ Exited \/ ENABLED Next
    /\ (Exited /\ MainRun) =>
         \/ exitStatus = 0 /\ stderr = <<>>
         \/ /\ exitStatus = 1
            /\ Len(stderr) = 1
            /\ Len(stderr[1]) >= 2
            /\ stderr[1][1] = "Error: "

\* C1 witness: the run ended on the output-serialization failure path.
C1_Witness == Exited /\ MainRun /\ exitStatus = 1 /\ Len(stages) = 5 /\ OutputError

\* C2: a run that ends with status 1 has written nothing to stdout; a
\* non-help run that ends with status 0 has written exactly one object;
\* stdout is written only after read_input, validation and the capability
\* call have succeeded.
C2_NoPartialOutput ==
    /\ Len(stdout) <= 1
    /\ (Exited /\ exitStatus = 1) => stdout = <<>>
    /\ (Exited /\ MainRun /\ exitStatus = 0) =>
         Len(stdout) = 1 /\ "humanized_text" \in DOMAIN stdout[1]
    /\ stdout # <<>> =>
         /\ stages = AllStages
         /\ HasRequest
         /\ text.t = "str" /\ ~AllWhitespace(text.s)
         /\ imports = 1
         /\ Len(calls) = 1 /\ calls[1].raised = "None"

\* C2 witness: the run failed in the output stage, after the capability
\* had returned.
C2_Witness ==
    /\ Exited /\ exitStatus = 1 /\ stages = AllStages
    /\ Len(calls) = 1 /\ calls[1].raised = "None"

\* The request's text is missing, empty or whitespace only
BlankText ==
    /\ HasRequest
    /\ "text" \in DOMAIN Request => Request["text"].t = "str" /\ AllWhitespace(Request["text"].s)

\* C3: when the request's text is missing, empty or whitespace only, the
\* run fails with status 1 and the message
\* `Error: No text provided for humanization`, and the capability is
\* neither imported nor invoked, whatever strength and personality are.
C3_BlankTextRejected ==
    (MainRun /\ BlankText) =>
        /\ imports = 0
        /\ calls = <<>>
        /\ Exited => exitStatus = 1 /\ ValidationError /\ stdout = <<>>

\* C3 witness: a finished run whose text was whitespace only, with the
\* capability installed and both other fields given.
C3_Witness ==
    /\ Exited /\ MainRun /\ BlankText /\ humanoInstalled
    /\ "text" \in DOMAIN Request /\ Request["text"].s # <<>>
    /\ {"strength", "personality"} \subseteq DOMAIN Request

\* The request has everything but the strength in order: text a non-blank
\* string, personality absent or a string, capability installed
FineButStrength ==
    /\ HasRequest /\ humanoInstalled
    /\ "text" \in DOMAIN Request
    /\ Request["text"].t = "str" /\ ~AllWhitespace(Request["text"].s)
    /\ "personality" \in DOMAIN Request => Request["personality"].t = "str"

\* C4: the strength the capability receives is one of the four levels: the
\* request's when that is one of them, "medium" when it is absent or
\* anything else; and no strength keeps the run from reaching the call.
C4_StrengthCoerced ==
    /\ \A i \in 1..Len(calls) :
         LET k == calls[i].kwargs
         IN  /\ "strength" \in DOMAIN k
             /\ k["strength"] \in valid_strengths
             /\ IF "strength" \in DOMAIN Request /\ Request["strength"] \in valid_strengths
                THEN k["strength"] = Request["strength"]
                ELSE k["strength"] = PyStr(<<"m", "e", "d", "i", "u", "m">>)
    /\ (Exited /\ MainRun /\ FineButStrength) => Len(calls) = 1

\* C4 witness: the capability was called for a request whose strength is
\* given and is none of the four levels.
C4_Witness ==
    /\ Len(calls) = 1
    /\ "strength" \in DOMAIN Request
    /\ Request["strength"] \notin valid_strengths

\* C5: a missing capability is reported by the availability message alone,
\* and every failure the capability raises when called, whatever its
\* class, is reported with the prefix `Humano processing failed:`; both end
\* with status 1.
C5_ErrorClassification ==
    (Exited /\ MainRun) =>
        /\ (imports = 1 /\ ~humanoInstalled) => exitStatus = 1 /\ UnavailableError
        /\ (Len(calls) = 1 /\ calls[1].raised # "None") =>
               exitStatus = 1 /\ ProcessingError

\* C6: a personality argument is passed exactly when the request's
\* personality is non-empty after trimming, and is then the trimmed
\* personality; otherwise no personality argument is passed at all.
C6_PersonalityOptional ==
    \A i \in 1..Len(calls) :
        LET k == calls[i].kwargs
            given == "personality" \in DOMAIN Request
            blank == ~given \/ AllWhitespace(Request["personality"].s)
        IN  /\ "personality" \in DOMAIN k <=> ~blank
            /\ "personality" \in DOMAIN k =>
                 /\ k["personality"].t = "str"
                 /\ k["personality"].s # <<>>
                 /\ IsTrimOf(k["personality"].s, Request["personality"].s)

\* C6 witness: the capability was called for a request whose personality
\* is given and whitespace only.
C6_Witness ==
    /\ Len(calls) = 1
    /\ "personality" \in DOMAIN Request
    /\ Request["personality"].s # <<>>
    /\ AllWhitespace(Request["personality"].s)

\* C7: with a help flag as first argument the run writes the dependency
\* report to stderr and exits 0; stdin is never read, stdout never
\* written, main never entered and the capability never called, whether
\* the capability is installed or not.
C7_HelpShortCircuit ==
    HelpRun =>
        /\ stdinReads = 0
        /\ stdout = <<>>
        /\ stages = <<>>
        /\ calls = <<>>
        /\ pc \in {"start", "help", "unwind", "exit"}
        /\ Exited =>
             /\ exitStatus = 0
             /\ Len(stderr) >= 2
             /\ stderr[1] = <<"Dependencies Check Results:">>
             /\ IF humanoInstalled
                THEN stderr[2] = <<"All dependencies are available">>
                ELSE stderr[2] = <<"Missing dependencies:">> /\ Len(stderr) > 3

\* C7 witness: a finished help run with the short flag and no capability.
C7_Witness == Exited /\ argv1 = "-h" /\ ~humanoInstalled

\* The object printed on success has the three fields, success true, a
\* timestamp, and the text the capability was called with is the request's
ResponseShape ==
    /\ Len(stdout) = 1
    /\ DOMAIN stdout[1] = {"humanized_text", "timestamp", "success"}
    /\ stdout[1].success = TRUE
    /\ stdout[1].timestamp \in IsoTimestamps \cup {"unknown"}
    /\ Len(calls) = 1
    /\ calls[1].text = Request["text"]

\* The capability's result as a string
ResultString == IF calls[1].returned.t = "str" THEN calls[1].returned.s
                ELSE StrOf(calls[1].returned)

\* C8 as claimed: on success humanized_text equals the value the capability
\* returned, converted to a string when it is none.
C8_Original ==
    (Exited /\ MainRun /\ exitStatus = 0) =>
        ResponseShape /\ stdout[1].humanized_text = ResultString

\* C8 as amended: on success humanized_text is the value the capability
\* returned, converted to a string when it is none, with its leading and
\* trailing whitespace removed.
C8_ResponseContent ==
    (Exited /\ MainRun /\ exitStatus = 0) =>
        ResponseShape /\ IsTrimOf(stdout[1].humanized_text, ResultString)

\* C8 witness: a successful run whose capability result had whitespace
\* around it.
C8_Witness ==
    /\ Exited /\ MainRun /\ exitStatus = 0
    /\ Len(calls) = 1 /\ calls[1].returned.t = "str"
    /\ stdout[1].humanized_text # <<>>
    /\ stdout[1].humanized_text # calls[1].returned.s

\* C9: `Humano processing failed:` is reported only when the capability
\* was called and that call raised.
C9_ProcessingOnlyFromCall ==
    (Exited /\ ProcessingError) => Len(calls) = 1 /\ calls[1].raised # "None"

IsPrefix(s, t) == Len(s) <= Len(t) /\ SubSeq(t, 1, Len(s)) = s

\* C10: the stages run in the order read_input, validation, import,
\* invocation, output, the first failure ends the run, and the error
\* reported is the earliest stage's: an input error for empty or invalid
\* stdin, a validation error for blank text, both even when the capability
\* is missing; the capability is called at most once.
C10_StageOrder ==
    /\ IsPrefix(stages, AllStages)
    /\ Len(calls) <= 1 /\ imports <= 1 /\ stdinReads <= 1
    /\ (Exited /\ MainRun) =>
         /\ ~HasRequest => stages = SubSeq(AllStages, 1, IF stdin.parses THEN 2 ELSE 1)
         /\ ~stdin.parses => exitStatus = 1 /\ InputError
         /\ BlankText => exitStatus = 1 /\ ValidationError /\ Len(stages) = 2
         /\ InputError => Len(stages) = 1
         /\ ValidationError => Len(stages) = 2
         /\ UnavailableError => Len(stages) = 3 /\ ~humanoInstalled
         /\ ProcessingError => Len(stages) \in {3, 4} /\ humanoInstalled
         /\ OutputError => Len(stages) = 5
         /\ exitStatus = 0 => Len(stages) = 5

\* C10 witness: a finished run with stdin that is no JSON and the
\* capability missing.
C10_Witness ==
    /\ Exited /\ MainRun /\ ~humanoInstalled
    /\ ~stdin.parses /\ ~AllWhitespace(stdin.raw)
====
